---- MODULE Spec2Model ----
(***************************************************************************)
(* Model of src/main.py: the flight-management data-access layer           *)
(* (DataClass, atoi, SQLQueries, DBOperations) over an SQLite store.       *)
(*                                                                         *)
(* Text is a sequence of one-character strings, so that str.isdigit, int,  *)
(* str(int) and SQLite's column affinity are computed, not assumed.        *)
(* A stored or bound value is a record [k, n, s]: k is "int", "text" or    *)
(* "null".                                                                 *)
(***************************************************************************)
EXTENDS Integers, Sequences, FiniteSets, TLC

VARIABLES fileExists, driver, db, seedFiles, ops, last,
          attrs, ghostKeys, ghostVal, recordOps

vars == <<fileExists, driver, db, seedFiles, ops, last,
          attrs, ghostKeys, ghostVal, recordOps>>

(***************************************************************************)
(* Bounds of the model.                                                    *)
(***************************************************************************)
\* number of interactive operations after construction
MaxOps == 2
\* number of set/remove operations applied to one Record
MaxRecordOps == 4

(***************************************************************************)
(* Text and values.                                                        *)
(***************************************************************************)
Digits == {"0", "1", "2", "3", "4", "5", "6", "7", "8", "9"}

DigitVal(ch) ==
    CASE ch = "0" -> 0 [] ch = "1" -> 1 [] ch = "2" -> 2 [] ch = "3" -> 3
      [] ch = "4" -> 4 [] ch = "5" -> 5 [] ch = "6" -> 6 [] ch = "7" -> 7
      [] ch = "8" -> 8 [] ch = "9" -> 9

DigitChar(d) ==
    CASE d = 0 -> "0" [] d = 1 -> "1" [] d = 2 -> "2" [] d = 3 -> "3"
      [] d = 4 -> "4" [] d = 5 -> "5" [] d = 6 -> "6" [] d = 7 -> "7"
      [] d = 8 -> "8" [] d = 9 -> "9"

IntV(n) == [k |-> "int", n |-> n, s |-> <<>>]
TextV(s) == [k |-> "text", n |-> 0, s |-> s]
Null == [k |-> "null", n |-> 0, s |-> <<>>]

\* str.isdigit: non-empty and every character a digit
isdigit(s) == Len(s) > 0 /\ \A i \in 1..Len(s) : s[i] \in Digits

\* int(s) for a digit-only s
RECURSIVE int(_)
int(s) == IF Len(s) = 0 THEN 0
          ELSE int(SubSeq(s, 1, Len(s) - 1)) * 10 + DigitVal(s[Len(s)])

\* str(n) for n >= 0
RECURSIVE strNat(_)
strNat(n) == IF n < 10 THEN <<DigitChar(n)>>
             ELSE Append(strNat(n \div 10), DigitChar(n % 10))

\* str(n)
str(n) == IF n < 0 THEN <<"-">> \o strNat(0 - n) ELSE strNat(n)

\* atoi (main.py:65): int(s) if s.isdigit() else s
atoi(s) == IF isdigit(s) THEN IntV(int(s)) ELSE TextV(s)

\* f"{v}" of an atoi result
fstr(v) == IF v.k = "int" THEN str(v.n) ELSE v.s

\* SQLite: a text that is an optionally signed run of digits is a
\* well-formed integer literal
LooksInt(s) ==
    \/ isdigit(s)
    \/ Len(s) > 1 /\ s[1] \in {"-", "+"} /\ isdigit(Tail(s))

SignedInt(s) ==
    IF s[1] = "-" THEN 0 - int(Tail(s))
    ELSE IF s[1] = "+" THEN int(Tail(s)) ELSE int(s)

\* SQLite column affinity applied to a value that is stored in, or compared
\* with, a column of affinity aff
ApplyAffinity(aff, v) ==
    IF aff = "INTEGER" /\ v.k = "text" /\ LooksInt(v.s) THEN IntV(SignedInt(v.s))
    ELSE IF aff = "TEXT" /\ v.k = "int" THEN TextV(str(v.n))
    ELSE v

(***************************************************************************)
(* SQLQueries: the registry and the DDL of sql_create_base.                *)
(***************************************************************************)
\* get_table_names: the keys of sql_create_base, in order
get_table_names == <<"pilots", "destinations", "flights">>

Registered == {get_table_names[i] : i \in 1..Len(get_table_names)}

Col(name, aff, notnull, unique) ==
    [name |-> name, aff |-> aff, notnull |-> notnull, unique |-> unique]

\* sql_create_base: the columns each CREATE TABLE declares
sql_create_base ==
    [t \in Registered |->
      CASE t = "pilots" ->
             << Col("id", "INTEGER", FALSE, TRUE),
                Col("name", "TEXT", TRUE, FALSE),
                Col("license_number", "TEXT", TRUE, TRUE),
                Col("flight_hours", "INTEGER", TRUE, FALSE) >>
        [] t = "destinations" ->
             << Col("id", "INTEGER", FALSE, TRUE),
                Col("city", "TEXT", TRUE, FALSE),
                Col("country", "TEXT", TRUE, FALSE),
                Col("airport_code", "TEXT", TRUE, TRUE) >>
        [] t = "flights" ->
             << Col("id", "INTEGER", FALSE, TRUE),
                Col("flight_number", "TEXT", TRUE, TRUE),
                Col("source_id", "INTEGER", TRUE, FALSE),
                Col("destination_id", "INTEGER", TRUE, FALSE),
                Col("departure_time", "TEXT", TRUE, FALSE),
                Col("arrival_time", "TEXT", TRUE, FALSE),
                Col("status", "TEXT", TRUE, FALSE),
                Col("pilot_id", "INTEGER", FALSE, FALSE) >>]

\* the column names of table t, in declaration order
ColNames ==
    [t \in Registered |->
        [i \in 1..Len(sql_create_base[t]) |-> sql_create_base[t][i].name]]

\* the columns of table t other than id
DataCols ==
    [t \in Registered |->
        {sql_create_base[t][i].name : i \in 2..Len(sql_create_base[t])}]

\* the declaration of column c of table t
ColDef ==
    [t \in Registered |->
        [c \in DataCols[t] |->
            CHOOSE d \in {sql_create_base[t][i] : i \in 1..Len(sql_create_base[t])} :
                d.name = c]]

\* CHECK (flight_hours >= 0): a NULL passes a CHECK, and SQLite orders every
\* text after every number
CheckOk(t, row) ==
    t = "pilots" =>
        LET v == row["flight_hours"] IN
        CASE v.k = "int" -> v.n >= 0
          [] v.k = "text" -> TRUE
          [] OTHER -> TRUE

(***************************************************************************)
(* The store: db.exists[t], db.rows[t] (id -> row, a row maps each data    *)
(* column to its value) and db.seq[t], the AUTOINCREMENT counter kept in   *)
(* sqlite_sequence.  Foreign keys are declared by the DDL but the          *)
(* connections of get_connection never enable their enforcement.           *)
(***************************************************************************)
NoRows == [i \in {} |-> 0]

EmptyDb ==
    [exists |-> [t \in Registered |-> FALSE],
     rows |-> [t \in Registered |-> NoRows],
     seq |-> [t \in Registered |-> 0]]

TableExists(d, t) == t \in Registered /\ d.exists[t]

Ids(d, t) == DOMAIN d.rows[t]

MaxOf(S) == CHOOSE m \in S : \A x \in S : x <= m

MinOf(S) == CHOOSE m \in S : \A x \in S : m <= x

RECURSIVE SortedSeq(_)
SortedSeq(S) == IF S = {} THEN <<>>
                ELSE <<MinOf(S)>> \o SortedSeq(S \ {MinOf(S)})

\* NOT NULL, UNIQUE and CHECK for the row that would get identifier i
ConstraintsOk(d, t, i, row) ==
    /\ \A c \in DataCols[t] : ColDef[t][c].notnull => row[c].k # "null"
    /\ \A c \in DataCols[t] :
          (ColDef[t][c].unique /\ row[c].k # "null") =>
              \A j \in Ids(d, t) \ {i} : d.rows[t][j][c] # row[c]
    /\ CheckOk(t, row)

Fail(d) == [ok |-> FALSE, db |-> d, rowcount |-> 0, id |-> 0]

\* CREATE TABLE IF NOT EXISTS
ExecCreate(d, t) ==
    IF d.exists[t] THEN d ELSE [d EXCEPT !.exists[t] = TRUE]

\* DROP TABLE IF EXISTS: the table's sqlite_sequence entry goes with it
ExecDrop(d, t) ==
    IF t \notin Registered THEN d
    ELSE [d EXCEPT !.exists[t] = FALSE, !.rows[t] = NoRows, !.seq[t] = 0]

\* INSERT INTO t (cols) VALUES (?, ...) with vals bound
ExecInsert(d, t, cols, vals) ==
    IF \/ ~TableExists(d, t)
       \/ Len(cols) = 0
       \/ \E i \in 1..Len(cols) : cols[i] \notin DataCols[t]
    THEN Fail(d)
    ELSE
      LET given(c) == {i \in 1..Len(cols) : cols[i] = c}
          row == [c \in DataCols[t] |->
                    IF given(c) = {} THEN Null
                    ELSE ApplyAffinity(ColDef[t][c].aff, vals[MaxOf(given(c))])]
          newid == (IF Ids(d, t) = {} THEN d.seq[t]
                    ELSE IF MaxOf(Ids(d, t)) > d.seq[t] THEN MaxOf(Ids(d, t))
                    ELSE d.seq[t]) + 1
      IN IF ~ConstraintsOk(d, t, newid, row) THEN Fail(d)
         ELSE [ok |-> TRUE,
               db |-> [d EXCEPT !.rows[t] = [i \in Ids(d, t) \cup {newid} |->
                                               IF i = newid THEN row
                                               ELSE d.rows[t][i]],
                                !.seq[t] = newid],
               rowcount |-> 1, id |-> newid]

\* the rows whose id equals the bound parameter p (id has INTEGER affinity)
MatchId(d, t, p) ==
    {i \in Ids(d, t) : IntV(i) = ApplyAffinity("INTEGER", p)}

\* ExecUpdate without its WHERE clause: every row is updated
ExecUpdateEveryRow(d, t, c, v, p) ==
    IF ~TableExists(d, t) \/ c \notin DataCols[t] THEN Fail(d)
    ELSE
      LET new(i) == [d.rows[t][i] EXCEPT ![c] = ApplyAffinity(ColDef[t][c].aff, v)]
      IN [ok |-> TRUE,
          db |-> [d EXCEPT !.rows[t] = [i \in Ids(d, t) |-> new(i)]],
          rowcount |-> Cardinality(MatchId(d, t, p)), id |-> 0]

\* ExecUpdate that reports a rejected update and leaves it written
ExecUpdateNoRollback(d, t, c, v, p) ==
    IF ~TableExists(d, t) \/ c \notin DataCols[t] THEN Fail(d)
    ELSE
      LET hit == MatchId(d, t, p)
          new(i) == [d.rows[t][i] EXCEPT ![c] = ApplyAffinity(ColDef[t][c].aff, v)]
      IN [ok |-> \A i \in hit : ConstraintsOk(d, t, i, new(i)),
          db |-> [d EXCEPT !.rows[t] = [i \in Ids(d, t) |->
                                          IF i \in hit THEN new(i)
                                          ELSE d.rows[t][i]]],
          rowcount |-> Cardinality(hit), id |-> 0]

\* UPDATE t SET c = ? WHERE id = ? with (v, p) bound
ExecUpdate(d, t, c, v, p) ==
    IF ~TableExists(d, t) \/ c \notin DataCols[t] THEN Fail(d)
    ELSE
      LET hit == MatchId(d, t, p)
          new(i) == [d.rows[t][i] EXCEPT ![c] = ApplyAffinity(ColDef[t][c].aff, v)]
      IN IF \E i \in hit : ~ConstraintsOk(d, t, i, new(i)) THEN Fail(d)
         ELSE [ok |-> TRUE,
               db |-> [d EXCEPT !.rows[t] = [i \in Ids(d, t) |->
                                               IF i \in hit THEN new(i)
                                               ELSE d.rows[t][i]]],
               rowcount |-> Cardinality(hit), id |-> 0]

\* ExecDelete without its WHERE clause: every row is deleted
ExecDeleteEveryRow(d, t, p) ==
    IF ~TableExists(d, t) THEN Fail(d)
    ELSE [ok |-> TRUE,
          db |-> [d EXCEPT !.rows[t] = NoRows],
          rowcount |-> Cardinality(MatchId(d, t, p)), id |-> 0]

\* DELETE FROM t WHERE id = ? with p bound
ExecDelete(d, t, p) ==
    IF ~TableExists(d, t) THEN Fail(d)
    ELSE
      LET hit == MatchId(d, t, p)
      IN [ok |-> TRUE,
          db |-> [d EXCEPT !.rows[t] = [i \in Ids(d, t) \ hit |-> d.rows[t][i]]],
          rowcount |-> Cardinality(hit), id |-> 0]

\* a result row of SELECT *
ResultRow(d, t, i) == [id |-> i, vals |-> d.rows[t][i]]

RowsOf(d, t, S) == [n \in 1..Cardinality(S) |-> ResultRow(d, t, SortedSeq(S)[n])]

(***************************************************************************)
(* DataClass (the Record): attrs is a Python dict, modelled as the         *)
(* sequence of its [k, v] items in insertion order.                        *)
(***************************************************************************)
\* str.lower on the keys the model uses
lower(k) ==
    CASE k = "Name" -> "name"
      [] k = "CITY" -> "city"
      [] OTHER -> k

KeyIndex(a, k) == {i \in 1..Len(a) : a[i].k = k}

\* __setitem__ that moves a key it overwrites to the end
setitemMovesToEnd(a, k, v) ==
    Append(SelectSeq(a, LAMBDA it : it.k # k), [k |-> k, v |-> v])

\* DataClass.__setitem__: a known key keeps its place, a new key goes last
setitem(a, k, v) ==
    IF KeyIndex(a, k) # {}
    THEN [i \in 1..Len(a) |-> IF a[i].k = k THEN [k |-> k, v |-> v] ELSE a[i]]
    ELSE Append(a, [k |-> k, v |-> v])

\* DataClass.__delitem__ of a key that is present
delitem(a, k) == SelectSeq(a, LAMBDA it : it.k # k)

\* DataClass.get_columns
get_columns(a) == [i \in 1..Len(a) |-> lower(a[i].k)]

\* DataClass.get_values
get_values(a) == [i \in 1..Len(a) |-> a[i].v]

\* dict(zip(header, fields)): a repeated header keeps its first place and its
\* last value
RECURSIVE dictzip(_, _)
dictzip(header, fields) ==
    IF Len(header) = 0 \/ Len(fields) = 0 THEN <<>>
    ELSE LET n == IF Len(header) < Len(fields) THEN Len(header) ELSE Len(fields)
         IN setitem(dictzip(SubSeq(header, 1, n - 1), SubSeq(fields, 1, n - 1)),
                    header[n], fields[n])

(***************************************************************************)
(* What an operation does besides changing the store is logged as a        *)
(* sequence of events: "open" (get_connection), "exec" (cursor.execute of  *)
(* statement a on table t, ok or rejected), "commit", "exit" (the end of   *)
(* the with block, which commits or rolls back and does not close),        *)
(* "unref" (the frame that holds the connection returns), "print".         *)
(***************************************************************************)
Ev(e, a, t, ok) == [e |-> e, a |-> a, t |-> t, ok |-> ok]

Open == Ev("open", "", "", TRUE)
Exit == Ev("exit", "", "", TRUE)
Unref == Ev("unref", "", "", TRUE)
Commit == Ev("commit", "", "", TRUE)
Say(m) == Ev("print", m, "", TRUE)
Exec(a, t, ok) == Ev("exec", a, t, ok)

\* _handle_error: prints and logs, raises nothing
handle_error == <<Say("Error, operation aborted")>>

NoData == [ok |-> FALSE, rows |-> <<>>, groups |-> {}]
Data(rows) == [ok |-> TRUE, rows |-> rows, groups |-> {}]
Groups(g) == [ok |-> TRUE, rows |-> <<>>, groups |-> g]

\* get_table_columns: PRAGMA table_info answers no rows for a table that does
\* not exist
get_table_columns(d, t) ==
    [cols |-> IF TableExists(d, t) THEN ColNames[t] ELSE <<>>,
     ev |-> <<Open, Exec("pragma", t, TRUE), Exit, Unref>>]

\* the literal that SQLite reads where a value was interpolated as text
LitOk(txt) == LooksInt(txt)

\* SELECT * FROM t WHERE cond, cond being 1=1, id = (SELECT MAX(id) FROM t),
\* id = <txt> or <c> = <txt>
EvalSelect(d, t, cond) ==
    IF ~TableExists(d, t) THEN NoData
    ELSE CASE cond.m = "all" -> Data(RowsOf(d, t, Ids(d, t)))
           [] cond.m = "maxid" ->
                Data(RowsOf(d, t, IF Ids(d, t) = {} THEN {} ELSE {MaxOf(Ids(d, t))}))
           [] cond.m = "id" ->
                IF ~LitOk(cond.txt) THEN NoData
                ELSE Data(RowsOf(d, t, {i \in Ids(d, t) : i = SignedInt(cond.txt)}))
           [] cond.m = "col" ->
                IF ~LitOk(cond.txt) \/ cond.c \notin DataCols[t] THEN NoData
                ELSE Data(RowsOf(d, t, {i \in Ids(d, t) :
                        d.rows[t][i][cond.c] =
                          ApplyAffinity(ColDef[t][cond.c].aff,
                                        IntV(SignedInt(cond.txt)))}))

\* SELECT COUNT(*), c FROM t GROUP BY c
EvalGroup(d, t, c) ==
    IF ~TableExists(d, t) \/ c \notin DataCols[t] THEN NoData
    ELSE Groups({<<Cardinality({j \in Ids(d, t) : d.rows[t][j][c] = d.rows[t][i][c]}),
                   d.rows[t][i][c]>> : i \in Ids(d, t)})

\* sql_flight_count: SELECT a.g, COUNT(fl.id) FROM ta a LEFT JOIN Flights fl
\* ON a.id = fl.aid WHERE condition GROUP BY a.g
EvalFlightCount(d, ta, aid, g, condition) ==
    IF \/ ~TableExists(d, ta) \/ ~TableExists(d, "flights")
       \/ condition \notin {"1=1", "1=0"}
    THEN NoData
    ELSE IF condition = "1=0" THEN Groups({})
    ELSE Groups({<<d.rows[ta][i][g],
                   Cardinality({p \in Ids(d, ta) \X Ids(d, "flights") :
                       /\ d.rows[ta][p[1]][g] = d.rows[ta][i][g]
                       /\ d.rows["flights"][p[2]][aid] = IntV(p[1])})>> :
                 i \in Ids(d, ta)})

\* _execute_query: one connection, one statement, the rows or None
_execute_query(a, t, data) ==
    [data |-> data,
     ev |-> <<Open, Exec(a, t, data.ok)>>
            \o (IF data.ok THEN <<>> ELSE handle_error) \o <<Exit, Unref>>]

\* _insert_data: the statement is built from get_columns and get_values
_insert_data(d, t, a) ==
    LET r == ExecInsert(d, t, get_columns(a), get_values(a))
    IN [db |-> r.db, ok |-> r.ok, id |-> r.id,
        ev |-> <<Open, Exec("insert", t, r.ok)>>
               \o (IF r.ok THEN <<Commit>> ELSE handle_error) \o <<Exit, Unref>>]

\* show with table_name and no headers: the headers are introspected
show(d, t) == get_table_columns(d, t).ev \o <<Say("table")>>

(***************************************************************************)
(* Input texts.                                                            *)
(***************************************************************************)
sE == <<>>
sJ == <<"J">>
sK == <<"K">>
s1 == <<"1">>
s2 == <<"2">>
s4 == <<"4">>
s5 == <<"5">>
s07 == <<"0", "7">>
s77 == <<"7", "7">>
sNeg == <<"-", "1">>
sExit == <<"E", "X", "I", "T">>

\* _get_user_input: EXIT cancels (None), anything else is the value
Cancelled(s) == s = sExit

\* _get_column_choice with the default exclude_cols: the column numbered
\* choice, "" standing for None
get_column_choice(cols, choice) ==
    LET available == {i \in 1..Len(cols) : cols[i] # "id"}
    IN IF available = {} THEN [col |-> "", ev |-> <<Say("No selectable columns found.")>>]
       ELSE IF Cancelled(choice) THEN [col |-> "", ev |-> <<>>]
       ELSE IF ~LooksInt(choice)
            THEN [col |-> "", ev |-> <<Say("Invalid selection. Please enter a valid number.")>>]
       ELSE IF SignedInt(choice) \in available
            THEN [col |-> cols[SignedInt(choice)], ev |-> <<>>]
       ELSE [col |-> "", ev |-> <<>>]

(***************************************************************************)
(* The record of the last operation: its name and table, the inputs it got *)
(* as far as it read them, its event log and what it displayed.            *)
(***************************************************************************)
Quiet ==
    [op |-> "", t |-> "", rid |-> Null, col |-> "", val |-> sE, attrs |-> <<>>,
     ev |-> <<>>, shown |-> NoData, wrote |-> FALSE, rowcount |-> 0, newid |-> 0,
     boot |-> FALSE]

Started(op, t) == [Quiet EXCEPT !.op = op, !.t = t]

\* search_data(table_name, id=...): no introspection before the statement
search_by_id(d, t, cond) ==
    LET q == _execute_query("select", t, EvalSelect(d, t, cond))
    IN [shown |-> q.data,
        ev |-> q.ev \o (IF q.data.ok THEN show(d, t) ELSE <<>>)]

\* search_data(table_name, show_all=True)
search_all(d, t) == search_by_id(d, t, [m |-> "all"])

\* search_data(table_name): a column is chosen, then a value
search_by_column(d, t, choice, value) ==
    LET g == get_table_columns(d, t)
        ch == get_column_choice(g.cols, choice)
        txt == fstr(atoi(value))
        q == _execute_query("select", t, EvalSelect(d, t, [m |-> "col", c |-> ch.col, txt |-> txt]))
    IN IF ch.col = "" THEN [Started("search", t) EXCEPT !.ev = g.ev \o ch.ev]
       ELSE IF Cancelled(value) THEN [Started("search", t) EXCEPT !.ev = g.ev, !.col = ch.col]
       ELSE [Started("search", t) EXCEPT
               !.col = ch.col, !.val = value, !.shown = q.data,
               !.ev = g.ev \o q.ev \o (IF q.data.ok THEN show(d, t) ELSE <<>>)]

\* the attrs insert_data collects: the non-blank inputs, coerced by atoi, in
\* column order, id skipped
RECURSIVE CollectAttrs(_, _, _)
CollectAttrs(cols, inputs, n) ==
    IF n = 0 THEN <<>>
    ELSE LET rest == CollectAttrs(cols, inputs, n - 1)
         IN IF cols[n] = "id" \/ inputs[cols[n]] = sE THEN rest
            ELSE setitem(rest, cols[n], atoi(inputs[cols[n]]))

\* insert_data
insert_data(d, t, inputs) ==
    LET g == get_table_columns(d, t)
        a == CollectAttrs(g.cols, inputs, Len(g.cols))
        ins == _insert_data(d, t, a)
        s == search_by_id(ins.db, t, [m |-> "maxid"])
    IN IF g.cols = <<>>
       THEN [db |-> d,
             last |-> [Started("insert", t) EXCEPT
                 !.ev = g.ev \o <<Say("Table does not exist or has no columns.")>>]]
       ELSE IF \E c \in DataCols[t] : Cancelled(inputs[c])
       THEN [db |-> d, last |-> [Started("insert", t) EXCEPT !.ev = g.ev]]
       ELSE IF a = <<>>
       THEN [db |-> d,
             last |-> [Started("insert", t) EXCEPT
                 !.ev = g.ev \o <<Say("No data entered.")>>]]
       ELSE [db |-> ins.db,
             last |-> [Started("insert", t) EXCEPT
                 !.attrs = a, !.wrote = ins.ok, !.newid = ins.id,
                 !.shown = s.shown, !.ev = g.ev \o ins.ev \o s.ev]]

\* update_data
update_data(d, t, rid, choice, value) ==
    LET g == get_table_columns(d, t)
        ch == get_column_choice(g.cols, choice)
        p == atoi(rid)
        u == ExecUpdate(d, t, ch.col, TextV(value), p)
        s == search_by_id(u.db, t, [m |-> "id", txt |-> fstr(p)])
    IN IF \A i \in 1..Len(g.cols) : g.cols[i] # "id"
       THEN [db |-> d,
             last |-> [Started("update", t) EXCEPT
                 !.ev = g.ev \o <<Say("No 'id' column found in this table.")>>]]
       ELSE IF Cancelled(rid)
       THEN [db |-> d, last |-> [Started("update", t) EXCEPT !.ev = g.ev]]
       ELSE IF ch.col = ""
       THEN [db |-> d,
             last |-> [Started("update", t) EXCEPT !.rid = p, !.ev = g.ev \o ch.ev]]
       ELSE IF Cancelled(value)
       THEN [db |-> d,
             last |-> [Started("update", t) EXCEPT
                 !.rid = p, !.col = ch.col, !.ev = g.ev]]
       ELSE [db |-> u.db,
             last |-> [Started("update", t) EXCEPT
                 !.rid = p, !.col = ch.col, !.val = value,
                 !.wrote = u.ok, !.rowcount = u.rowcount,
                 !.shown = IF u.ok THEN s.shown ELSE NoData,
                 !.ev = g.ev \o <<Open, Exec("update", t, u.ok)>>
                        \o (IF u.ok
                            THEN <<Commit, Say("Record updated successfully.")>> \o s.ev
                            ELSE handle_error)
                        \o <<Exit, Unref>>]]

\* delete_data
delete_data(d, t, rid) ==
    LET g == get_table_columns(d, t)
        p == atoi(rid)
        r == ExecDelete(d, t, p)
    IN IF \A i \in 1..Len(g.cols) : g.cols[i] # "id"
       THEN [db |-> d,
             last |-> [Started("delete", t) EXCEPT
                 !.ev = g.ev \o <<Say("No 'id' column found in this table.")>>]]
       ELSE IF Cancelled(rid)
       THEN [db |-> d, last |-> [Started("delete", t) EXCEPT !.ev = g.ev]]
       ELSE [db |-> r.db,
             last |-> [Started("delete", t) EXCEPT
                 !.rid = p, !.wrote = r.ok, !.rowcount = r.rowcount,
                 !.ev = g.ev \o <<Open, Exec("delete", t, r.ok)>>
                        \o (IF ~r.ok THEN handle_error
                            ELSE IF r.rowcount > 0
                            THEN <<Commit, Say("Successfully deleted from table")>>
                            ELSE <<Commit, Say("Record not found.")>>)
                        \o <<Exit, Unref>>]]

\* group_data
group_data(d, t, choice) ==
    LET g == get_table_columns(d, t)
        ch == get_column_choice(g.cols, choice)
        q == _execute_query("group", t, EvalGroup(d, t, ch.col))
    IN IF g.cols = <<>>
       THEN [Started("group", t) EXCEPT
               !.ev = g.ev \o <<Say("Table does not exist or has no columns.")>>]
       ELSE IF ch.col = "" THEN [Started("group", t) EXCEPT !.ev = g.ev \o ch.ev]
       ELSE [Started("group", t) EXCEPT
               !.col = ch.col, !.shown = q.data,
               !.ev = g.ev \o q.ev \o (IF q.data.ok THEN <<Say("table")>> ELSE <<>>)]

\* flight_summary: group_config maps the grouping mode to (table_a, a_id,
\* group_column)
group_config(group_by) ==
    CASE group_by = "Pilot" -> <<"pilots", "pilot_id", "name">>
      [] group_by = "Source" -> <<"destinations", "source_id", "airport_code">>
      [] group_by = "Destination" -> <<"destinations", "destination_id", "airport_code">>
      [] OTHER -> <<>>

flight_summary(d, group_by, condition) ==
    LET cfg == group_config(group_by)
        q == _execute_query("flight_count", cfg[1],
                            EvalFlightCount(d, cfg[1], cfg[2], cfg[3], condition))
    IN IF cfg = <<>>
       THEN [Started("summary", group_by) EXCEPT
               !.ev = <<Say("Grouping is not supported.")>>]
       ELSE [Started("summary", group_by) EXCEPT
               !.col = cfg[3], !.val = <<condition>>, !.shown = q.data,
               !.ev = q.ev \o (IF q.data.ok /\ q.data.groups # {}
                               THEN <<Say("table")>>
                               ELSE <<Say("No summary data found.")>>)]

(***************************************************************************)
(* Bootstrap.  A seed file is [present, header, lines]; its fields reach   *)
(* the store as the texts read from the file.                              *)
(***************************************************************************)
\* create_table
create_table(d, t) ==
    [db |-> ExecCreate(d, t),
     ev |-> <<Open, Exec("create", t, TRUE), Commit, Exit, Unref>>]

SeedRecord(header, fields) ==
    dictzip([i \in 1..Len(header) |-> lower(header[i])],
            [i \in 1..Len(fields) |-> TextV(fields[i])])

\* populate_table, lines 1..n of the file: each line is inserted on its own,
\* and a rejected line is logged by _insert_data and does not stop the loop
RECURSIVE PopulateLines(_, _, _, _)
PopulateLines(d, t, file, n) ==
    IF n = 0 THEN [db |-> d, ev |-> <<>>]
    ELSE LET before == PopulateLines(d, t, file, n - 1)
             ins == _insert_data(before.db, t, SeedRecord(file.header, file.lines[n]))
         IN [db |-> ins.db, ev |-> before.ev \o ins.ev]

\* populate_table: a file that cannot be opened is logged
populate_table(d, t, file) ==
    IF ~file.present THEN [db |-> d, ev |-> handle_error]
    ELSE PopulateLines(d, t, file, Len(file.lines))

\* initialize_tables, tables 1..n of the registry
RECURSIVE InitializeUpTo(_, _, _)
InitializeUpTo(d, files, n) ==
    IF n = 0 THEN [db |-> d, ev |-> <<>>]
    ELSE LET before == InitializeUpTo(d, files, n - 1)
             t == get_table_names[n]
             c == create_table(before.db, t)
             f == populate_table(c.db, t, files[t])
         IN [db |-> f.db, ev |-> before.ev \o c.ev \o f.ev]

initialize_tables(d, files) == InitializeUpTo(d, files, Len(get_table_names))

\* __init__ that bootstraps whether or not the store file is there
ShouldBootstrapAlways(exists) == TRUE

\* DBOperations.__init__: bootstrap only when the store file is absent
ShouldBootstrap(exists) == ~exists

\* drop_table
drop_table(d, t) ==
    [db |-> ExecDrop(d, t),
     last |-> [Started("drop", t) EXCEPT
                 !.wrote = TRUE,
                 !.ev = <<Open, Exec("drop", t, TRUE), Commit, Exit, Unref>>]]

(***************************************************************************)
(* Inputs of the model.                                                    *)
(***************************************************************************)
File(header, lines) == [present |-> TRUE, header |-> header, lines |-> lines]
Missing == [present |-> FALSE, header |-> <<>>, lines |-> <<>>]

PilotHeader == <<"name", "license_number", "flight_hours">>
DestHeader == <<"city", "country", "airport_code">>
FlightHeader == <<"flight_number", "source_id", "destination_id",
                  "departure_time", "arrival_time", "status", "pilot_id">>

SeedSets ==
    << [pilots |-> File(PilotHeader, << <<sJ, s77, s5>>, <<sJ, sK, s5>> >>),
       destinations |-> File(DestHeader, << <<sJ, sJ, sK>> >>),
       flights |-> Missing],
       [pilots |-> File(PilotHeader, << <<sK, sK, s5>>, <<sJ>>, <<sJ, s77, s07>> >>),
       destinations |-> File(DestHeader, << <<sJ, sJ, sK>>, <<sK, sK, s77>> >>),
       flights |-> File(FlightHeader, << <<sK, s1, s1, sJ, sJ, sJ, s1>> >>)] >>

TableArgs == Registered \cup {"nonexistent"}

\* what is typed at the prompts of insert_data: a value for every column, or
\* EXIT at the first prompt
InsertInputs(t) ==
    CASE t = "pilots" ->
           [name : {sE, sJ}, license_number : {sK, s07}, flight_hours : {s5, sNeg}]
           \cup [name : {sExit}, license_number : {sE}, flight_hours : {sE}]
      [] t = "destinations" ->
           [city : {sJ}, country : {sE, sJ}, airport_code : {sK, s07}]
           \cup [city : {sExit}, country : {sE}, airport_code : {sE}]
      [] t = "flights" ->
           [flight_number : {sE, sK}, source_id : {s1}, destination_id : {s5},
            departure_time : {sJ}, arrival_time : {sJ}, status : {sJ},
            pilot_id : {sE, s5}]
      [] OTHER -> {[x \in {} |-> sE]}

\* a prompt that is not reached reads nothing
Asked(reached, inputs) == IF reached THEN inputs ELSE {sExit}

HasId(d, t) == \E i \in 1..Len(get_table_columns(d, t).cols) :
                  get_table_columns(d, t).cols[i] = "id"

Chosen(d, t, c) == get_column_choice(get_table_columns(d, t).cols, c).col # ""

IdInputs == {s1, s5, sJ, sExit}
ChoiceInputs == {s1, s2, s4, sJ}
ValueInputs == {s77, sNeg, sExit}
FilterInputs == {s77, sJ, sExit}
GroupByInputs == {"Pilot", "Source", "Destination", "Other"}
ConditionInputs == {"1=1", "1=0", "fl.status ="}

(***************************************************************************)
(* The state machine.                                                      *)
(***************************************************************************)
Opens(ev) == \E i \in 1..Len(ev) : ev[i].e = "open"

RecordIdle == UNCHANGED <<attrs, ghostKeys, ghostVal, recordOps>>

Init ==
    /\ fileExists = FALSE
    /\ driver = FALSE
    /\ db = EmptyDb
    /\ seedFiles \in 1..Len(SeedSets)
    /\ ops = 0
    /\ last = Quiet
    /\ attrs = <<>>
    /\ ghostKeys = <<>>
    /\ ghostVal = [k \in {} |-> Null]
    /\ recordOps = 0

\* DBOperations(name)
Construct ==
    LET b == initialize_tables(db, SeedSets[seedFiles])
    IN /\ driver' = TRUE
       /\ IF ShouldBootstrap(fileExists)
          THEN /\ db' = b.db
               /\ fileExists' = TRUE
               /\ last' = [Started("init", "") EXCEPT !.boot = TRUE, !.ev = b.ev]
          ELSE /\ UNCHANGED <<db, fileExists>>
               /\ last' = Started("init", "")
       /\ UNCHANGED <<seedFiles, ops>>
       /\ RecordIdle

\* an operation of the driver that yields [db, last]
Does(r) ==
    /\ driver
    /\ ops < MaxOps
    /\ ops' = ops + 1
    /\ db' = r.db
    /\ last' = r.last
    /\ fileExists' = (fileExists \/ Opens(r.last.ev))
    /\ UNCHANGED <<driver, seedFiles>>
    /\ RecordIdle

Reads(l) == Does([db |-> db, last |-> l])

InsertData == \E t \in TableArgs : \E inputs \in InsertInputs(t) :
    Does(insert_data(db, t, inputs))

SearchAll == \E t \in TableArgs : Reads([Started("view", t) EXCEPT
    !.shown = search_all(db, t).shown, !.ev = search_all(db, t).ev])

SearchByColumn == \E t \in TableArgs :
    \E c \in Asked(HasId(db, t), ChoiceInputs) :
    \E v \in Asked(Chosen(db, t, c), FilterInputs) :
        Reads(search_by_column(db, t, c, v))

UpdateData == \E t \in TableArgs :
    \E rid \in Asked(HasId(db, t), IdInputs) :
    \E c \in Asked(~Cancelled(rid), ChoiceInputs) :
    \E v \in Asked(Chosen(db, t, c), ValueInputs) :
        Does(update_data(db, t, rid, c, v))

DeleteData == \E t \in TableArgs :
    \E rid \in Asked(HasId(db, t), IdInputs) :
        Does(delete_data(db, t, rid))

GroupData == \E t \in TableArgs :
    \E c \in Asked(HasId(db, t), ChoiceInputs) :
        Reads(group_data(db, t, c))

FlightSummary == \E g \in GroupByInputs : \E c \in ConditionInputs :
    Reads(flight_summary(db, g, c))

DropTable == \E t \in Registered : Does(drop_table(db, t))

\* teardown, confirmed: the store file is removed
Teardown ==
    /\ driver
    /\ fileExists
    /\ fileExists' = FALSE
    /\ db' = EmptyDb
    /\ last' = [Started("teardown", "") EXCEPT !.ev = <<Say("Database removed successfully.")>>]
    /\ UNCHANGED <<driver, seedFiles, ops>>
    /\ RecordIdle

Next ==
    \/ Construct
    \/ InsertData
    \/ SearchAll
    \/ SearchByColumn
    \/ UpdateData
    \/ DeleteData
    \/ GroupData
    \/ FlightSummary
    \/ DropTable
    \/ Teardown

Spec == Init /\ [][Next]_vars

(***************************************************************************)
(* The Record on its own: set and remove applied to one DataClass, with    *)
(* the mapping it is meant to hold kept beside it (ghostKeys: the keys in  *)
(* insertion order, ghostVal: the value last set for each).                *)
(***************************************************************************)
RecordKeys == {"name", "Name", "CITY"}
RecordValues == {IntV(5), TextV(sJ)}

MainIdle == UNCHANGED <<fileExists, driver, db, seedFiles, ops, last>>

InGhost(k) == \E i \in 1..Len(ghostKeys) : ghostKeys[i] = k

\* record[k] = v
RecordSet == \E k \in RecordKeys : \E v \in RecordValues :
    /\ recordOps < MaxRecordOps
    /\ recordOps' = recordOps + 1
    /\ attrs' = setitem(attrs, k, v)
    /\ ghostKeys' = IF InGhost(k) THEN ghostKeys ELSE Append(ghostKeys, k)
    /\ ghostVal' = [x \in DOMAIN ghostVal \cup {k} |-> IF x = k THEN v ELSE ghostVal[x]]
    /\ MainIdle

\* del record[k]; a key that is absent raises KeyError and changes nothing
RecordRemove == \E k \in RecordKeys :
    /\ recordOps < MaxRecordOps
    /\ recordOps' = recordOps + 1
    /\ attrs' = IF KeyIndex(attrs, k) = {} THEN attrs ELSE delitem(attrs, k)
    /\ ghostKeys' = SelectSeq(ghostKeys, LAMBDA x : x # k)
    /\ ghostVal' = [x \in DOMAIN ghostVal \ {k} |-> ghostVal[x]]
    /\ MainIdle

RecordNext == RecordSet \/ RecordRemove

SpecRecord == Init /\ [][RecordNext]_vars

(***************************************************************************)
(* Properties.                                                             *)
(***************************************************************************)
Printed(ev, m) == \E i \in 1..Len(ev) : ev[i].e = "print" /\ ev[i].a = m

Rejected(ev) == \E i \in 1..Len(ev) : ev[i].e = "exec" /\ ~ev[i].ok

\* the connections held after event n: a connection is held from
\* get_connection until the frame that holds it returns; no operation closes
\* one earlier
Held(ev, n) ==
    Cardinality({i \in 1..n : ev[i].e = "open"})
      - Cardinality({i \in 1..n : ev[i].e = "unref"})

\* a step of an interactive operation
OpStep == ops' = ops + 1

\* the rows of every table but row i of table t are the same before and after
OthersSame(t, i) ==
    /\ db'.exists = db.exists
    /\ db'.seq = db.seq
    /\ \A u \in Registered :
          /\ Ids(db', u) \cup (IF u = t THEN {i} ELSE {}) =
               Ids(db, u) \cup (IF u = t THEN {i} ELSE {})
          /\ \A j \in Ids(db, u) : (u # t \/ j # i) => db'.rows[u][j] = db.rows[u][j]

\* the stored value v is the text typed, or the integer that text denotes
Stores(v, typed) ==
    \/ v = TextV(typed)
    \/ LooksInt(typed) /\ v = IntV(SignedInt(typed))

\* C1: an update of column c (never id) of an existing id i with an accepted
\* new value sets column c of row i to that value and changes no other
\* column of row i and no other row of any table.
C1_UpdateChangesOnlyTarget ==
    [][(OpStep /\ last'.op = "update" /\ last'.wrote /\ last'.rid.k = "int"
          /\ last'.rid.n \in Ids(db, last'.t))
        => LET t == last'.t
               i == last'.rid.n
               c == last'.col
           IN /\ c # "id" /\ c \in DataCols[t]
              /\ OthersSame(t, i)
              /\ i \in Ids(db', t)
              /\ Stores(db'.rows[t][i][c], last'.val)
              /\ \A o \in DataCols[t] \ {c} : db'.rows[t][i][o] = db.rows[t][i][o]]_vars

C1_Witness ==
    /\ last.op = "update" /\ last.wrote /\ last.rowcount = 1
    /\ last.t = "pilots" /\ last.col = "flight_hours"
    /\ Cardinality(Ids(db, "pilots")) = 2
    /\ Ids(db, "destinations") # {}
    /\ db.rows["pilots"][last.rid.n]["flight_hours"] = IntV(77)

C3_DeleteRemovesExactlyOne ==
    [][(OpStep /\ last'.op = "delete" /\ last'.rid.k # "null")
        => LET t == last'.t
               p == last'.rid
           IN /\ IF p.k = "int" /\ p.n \in Ids(db, t)
                 THEN /\ OthersSame(t, p.n)
                      /\ Ids(db', t) = Ids(db, t) \ {p.n}
                      /\ last'.rowcount = 1
                      /\ Printed(last'.ev, "Successfully deleted from table")
                      /\ ~Printed(last'.ev, "Record not found.")
                 ELSE /\ db' = db
                      /\ last'.rowcount = 0
                      /\ Printed(last'.ev, "Record not found.")
                      /\ ~Printed(last'.ev, "Successfully deleted from table")
              /\ (last.op = "delete" /\ last.t = t /\ last.rid = p)
                   => db' = db /\ Printed(last'.ev, "Record not found.")]_vars

C3_Witness ==
    /\ last.op = "delete" /\ last.rowcount = 1 /\ last.rid = IntV(1)
    /\ last.t = "pilots"
    /\ Ids(db, "pilots") = {2}
    /\ Ids(db, "destinations") # {}

\* the value that the store holds for an attribute, read back through the
\* same numeric coercion as the input
Coerced(v) == IF v.k = "text" THEN atoi(v.s) ELSE v

\* C4: after an insert with a non-empty attribute set, the search by maximum
\* id shows exactly the row this insert wrote, with the supplied values.
C4_InsertShowsTheInsertedRow ==
    (last.op = "insert" /\ last.attrs # <<>>)
      => /\ last.wrote
         /\ last.shown.ok
         /\ last.shown.rows = <<ResultRow(db, last.t, last.newid)>>
         /\ \A i \in 1..Len(last.attrs) :
               Coerced(db.rows[last.t][last.newid][last.attrs[i].k]) = last.attrs[i].v

\* C5: construction bootstraps exactly when the store file is absent; with
\* the file present it creates no table, inserts no seed row and leaves every
\* table as it was.
C5_BootstrapOnlyWithoutFile ==
    [][(last'.op = "init" /\ ~OpStep)
        => /\ last'.boot <=> ~fileExists
           /\ last'.boot =>
                \A t \in Registered :
                   /\ db'.exists[t]
                   /\ \E i \in 1..Len(last'.ev) : last'.ev[i] = Exec("create", t, TRUE)
           /\ fileExists => (db' = db /\ last'.ev = <<>>)]_vars

C5_Witness ==
    /\ last.op = "init" /\ ~last.boot /\ last.ev = <<>>
    /\ ops > 0
    /\ \E t \in Registered : ~db.exists[t]
    /\ \E t \in Registered : Ids(db, t) # {}

\* C6: get_columns and get_values have the same length, and at every index
\* get_columns gives the lower-cased key and get_values the value of the
\* same attribute, in insertion order.
C6_ColumnsAndValuesAligned ==
    /\ Len(get_columns(attrs)) = Len(get_values(attrs))
    /\ Len(get_columns(attrs)) = Len(ghostKeys)
    /\ \A i \in 1..Len(ghostKeys) :
          /\ get_columns(attrs)[i] = lower(ghostKeys[i])
          /\ get_values(attrs)[i] = ghostVal[ghostKeys[i]]

C6_Witness ==
    /\ recordOps = MaxRecordOps
    /\ ghostKeys = <<"Name", "name">>
    /\ get_columns(attrs) = <<"name", "name">>
    /\ get_values(attrs) = <<TextV(sJ), IntV(5)>>

\* C7: flight_summary("Pilot", "1=1") on an empty Flights table shows one row
\* per row of Pilots, each with count 0.
C7_SummaryHasOneRowPerPilot ==
    (/\ last.op = "summary" /\ last.t = "Pilot" /\ last.val = <<"1=1">>
     /\ db.exists["pilots"] /\ db.exists["flights"] /\ Ids(db, "flights") = {})
      => /\ last.shown.ok
         /\ Cardinality(last.shown.groups) = Cardinality(Ids(db, "pilots"))
         /\ \A g \in last.shown.groups : g[2] = 0

\* C8: an operation called with a table that does not exist executes no
\* statement against it other than the introspection, and prints a message.
C8_AbsentTableAbortsBeforeAnyStatement ==
    (/\ last.op \in {"insert", "view", "search", "update", "delete", "group"}
     /\ ~TableExists(db, last.t))
      => /\ \A i \in 1..Len(last.ev) :
               last.ev[i].e = "exec" => last.ev[i].a = "pragma"
         /\ \E i \in 1..Len(last.ev) : last.ev[i].e = "print"

C10_RejectedStatementChangesNothing ==
    [][(OpStep /\ Rejected(last'.ev))
        => /\ db' = db
           /\ \A i \in 1..Len(last'.ev) :
                 (last'.ev[i].e = "exec" /\ ~last'.ev[i].ok)
                    => /\ i < Len(last'.ev)
                       /\ last'.ev[i + 1] = Say("Error, operation aborted")
           /\ (last'.op \in {"insert", "update", "delete"}
                 /\ \E i \in 1..Len(last'.ev) :
                       last'.ev[i] = Exec(last'.op, last'.t, FALSE))
                => ~last'.wrote
           /\ (last'.op \in {"view", "search", "group", "summary"})
                => /\ ~last'.shown.ok
                   /\ ~Printed(last'.ev, "table")]_vars

C10_Witness ==
    /\ last.op = "update" /\ ~last.wrote /\ Rejected(last.ev)
    /\ last.t = "destinations" /\ last.col = "airport_code"
    /\ Cardinality(Ids(db, "destinations")) = 2

\* the positions of the log at which an INSERT into table t was executed
InsertsAt(ev, t) == {i \in 1..Len(ev) : ev[i].e = "exec" /\ ev[i].a = "insert" /\ ev[i].t = t}

\* the position of the log at which table t was created, 0 when it was not
CreatedAt(ev, t) ==
    IF \E i \in 1..Len(ev) : ev[i] = Exec("create", t, TRUE)
    THEN CHOOSE i \in 1..Len(ev) : ev[i] = Exec("create", t, TRUE)
    ELSE 0

\* C11: in a bootstrap, once a seed row of a table has failed no further row
\* of that table's file is inserted, the failure is logged, and every
\* registered table is still created, in registry order, with its own seed
\* rows loaded after its creation.
C11_SeedFailureStopsThatTableOnly ==
    (last.op = "init" /\ last.boot)
      => /\ \A t \in Registered : \A i \in InsertsAt(last.ev, t) :
               ~last.ev[i].ok
                 => /\ last.ev[i + 1] = Say("Error, operation aborted")
                    /\ \A j \in InsertsAt(last.ev, t) : j <= i
         /\ \A n \in 1..Len(get_table_names) :
               /\ CreatedAt(last.ev, get_table_names[n]) > 0
               /\ \A m \in 1..(n - 1) :
                     CreatedAt(last.ev, get_table_names[m])
                       < CreatedAt(last.ev, get_table_names[n])
               /\ \A i \in InsertsAt(last.ev, get_table_names[n]) :
                     /\ i > CreatedAt(last.ev, get_table_names[n])
                     /\ \A m \in (n + 1)..Len(get_table_names) :
                           i < CreatedAt(last.ev, get_table_names[m])

\* the statements whose text holds the table name the caller passed
TableInText == {"select", "insert", "update", "delete", "group"}

\* the table of the statement at position i was introspected earlier in the
\* same operation
IntrospectedBefore(ev, i) ==
    \E j \in 1..(i - 1) : ev[j] = Exec("pragma", ev[i].t, TRUE)

\* C12: every table name an operation puts into a statement was introspected
\* by that operation first and has a column list, every column name put into
\* a statement is in that column list, and the join aggregate is built only
\* from a grouping mode of the fixed table.
C12_IdentifiersCheckedBeforeInterpolation ==
    (last.op \in {"insert", "view", "search", "update", "delete", "group", "summary"})
      => /\ \A i \in 1..Len(last.ev) :
               (last.ev[i].e = "exec" /\ last.ev[i].a \in TableInText)
                 => /\ IntrospectedBefore(last.ev, i)
                    /\ TableExists(db, last.ev[i].t)
                    /\ last.col # "" =>
                         \E k \in 1..Len(ColNames[last.ev[i].t]) :
                            ColNames[last.ev[i].t][k] = last.col
         /\ \A i \in 1..Len(last.ev) :
               (last.ev[i].e = "exec" /\ last.ev[i].a = "flight_count")
                 => /\ group_config(last.t) # <<>>
                    /\ last.ev[i].t = group_config(last.t)[1]
                    /\ last.col = group_config(last.t)[3]

\* the stored value v equals the literal typed: as an integer when the
\* literal is digit-only, as text otherwise
EqualsLiteral(v, typed) ==
    \/ v = TextV(typed)
    \/ isdigit(typed) /\ v = IntV(int(typed))

\* C13: a search by a chosen column and a literal shows exactly the rows of
\* the table whose chosen column equals the literal, whether the literal is
\* digit-only or any other text.
C13_SearchByColumnFindsEqualRows ==
    (/\ last.op = "search" /\ last.col # "" /\ last.val # sE
     /\ TableExists(db, last.t))
      => /\ last.shown.ok
         /\ last.shown.rows =
              RowsOf(db, last.t,
                     {i \in Ids(db, last.t) :
                        EqualsLiteral(db.rows[last.t][i][last.col], last.val)})

\* the value v is the id of a row of table t
RefersTo(d, v, t) == v.k = "int" /\ v.n \in Ids(d, t)

\* every Flights row refers to existing Destinations rows and to no pilot or
\* an existing Pilots row
ReferencesHold(d) ==
    \A i \in Ids(d, "flights") :
       LET f == d.rows["flights"][i]
       IN /\ RefersTo(d, f["source_id"], "destinations")
          /\ RefersTo(d, f["destination_id"], "destinations")
          /\ f["pilot_id"] = Null \/ RefersTo(d, f["pilot_id"], "pilots")

\* C14: the references of Flights hold after bootstrap, and an insert, an
\* update by id or a delete by id that starts with them holding ends with
\* them holding.
C14_ReferencesPreserved ==
    [][/\ (last'.op = "init" /\ last'.boot) => ReferencesHold(db')
       /\ (OpStep /\ last'.op \in {"insert", "update", "delete"} /\ ReferencesHold(db))
            => ReferencesHold(db')]_vars

====
